---- MODULE Spec2Model ----
(***************************************************************************)
(* Risk pipeline of Citi-Cup-RiskFX-Demo:                                  *)
(*   calculate_risk_parameters  (data_ingestion_and_cleaning.py)           *)
(*   run_monte_carlo_simulation (monte_carlo_risk_simulation.py)           *)
(*   calculate_value_at_risk    (monte_carlo_risk_simulation.py)           *)
(*                                                                         *)
(* Reals are carried in fixed point: a log-return, drift or volatility x   *)
(* is the integer x * Unit, rounded down by every division, as a float     *)
(* rounds every operation.  Portfolio values are whole currency units.     *)
(* Percentiles and tail means are exact rationals [n, d] with d > 0.       *)
(***************************************************************************)
EXTENDS Integers, Sequences, FiniteSets, TLC

\* ------------------------------------------------------------- bounds
\* Fixed-point resolution of log-returns, drift and volatility.
Unit == 1000
\* Largest num_simulations a caller passes.
MaxPaths == 3
\* Largest forecast_days a caller passes.
MaxDays == 2
\* Number of states of the process-wide generator behind np.random.
RngMod == 8

\* ------------------------------------------------- program constants
INITIAL_INVESTMENT == 100000
ANNUAL_TRADING_DAYS == 252
\* np.percentile takes its rank in percent: var_quantile * 100.
PERCENT == 100
\* CONFIDENCE_LEVEL = 0.99, in percent.
CONFIDENCE_LEVEL == 99

\* ------------------------------------------------------ input domains
\* Confidence levels a caller passes, in percent: 0.0, 0.5, 0.99, 1.0, 1.1.
ConfidenceLevels == {0, 50, CONFIDENCE_LEVEL, PERCENT, PERCENT + 10}
\* initial_investment arguments.
Investments == {0, INITIAL_INVESTMENT \div 2, INITIAL_INVESTMENT}
\* forecast_days and num_simulations arguments.  Negative counts are left
\* out: np.random.normal rejects a negative dimension itself.
DayCounts == 0 .. MaxDays
PathCounts == 0 .. MaxPaths
\* annual_trading_days arguments: monthly and daily annualization.
AnnualizationFactors == {12, ANNUAL_TRADING_DAYS}
\* Log_Returns columns of the cleaned frame: empty (the frame the cleaner
\* returns for a failed load), constant zero, constant non-zero, volatile.
ReturnSeries ==
    { << >>, <<0, 0>>, <<Unit \div 10, Unit \div 10>>,
      <<-(Unit \div 5), (2 * Unit) \div 5>> }

\* --------------------------------------------------------- arithmetic
RECURSIVE SumSeq(_)
SumSeq(s) == IF s = << >> THEN 0 ELSE Head(s) + SumSeq(Tail(s))

RECURSIVE SqrtIter(_, _, _)
\* Largest r in lo..hi with r * r <= n, by bisection.
SqrtIter(n, lo, hi) ==
    IF lo >= hi THEN lo
    ELSE LET mid == (lo + hi + 1) \div 2
         IN  IF mid * mid <= n THEN SqrtIter(n, mid, hi)
             ELSE SqrtIter(n, lo, mid - 1)

\* floor(sqrt(n)) for 0 <= n < 2^31.
ISqrt(n) == SqrtIter(n, 0, 46340)

\* np.sqrt(T) of a whole number T, in fixed point.
SqrtOfInt(T) == ISqrt(T * Unit * Unit)

\* x * y and x / y of two fixed-point numbers.
FMul(x, y) == (x * y) \div Unit
FDiv(x, y) == (x * Unit) \div y

RECURSIVE ExpTerms(_, _, _)
\* Sum of the Taylor terms term_k, term_{k+1}, ... of exp(x) until they vanish.
ExpTerms(x, term, k) ==
    IF term = 0 \/ k > 12 THEN 0
    ELSE term + ExpTerms(x, (term * x) \div (k * Unit), k + 1)

\* np.exp(x) of a fixed-point x, in fixed point: exp(0) = 1 exactly.
Exp(x) == ExpTerms(x, Unit, 1)

\* ---------------------------------------------------------- rationals
\* n / d with d > 0; d = 0 is NaN (the mean of an empty slice).
Rat(n, d) == [n |-> n, d |-> d]
NaN == Rat(0, 0)
IsNaN(a) == a.d = 0
RInt(i) == Rat(i, 1)
RSub(a, b) == IF IsNaN(a) \/ IsNaN(b) THEN NaN
              ELSE Rat(a.n * b.d - b.n * a.d, a.d * b.d)
\* Comparisons with NaN are false, as in IEEE 754.
RLe(a, b) == ~IsNaN(a) /\ ~IsNaN(b) /\ a.n * b.d <= b.n * a.d
REq(a, b) == ~IsNaN(a) /\ ~IsNaN(b) /\ a.n * b.d = b.n * a.d
RLt(a, b) == RLe(a, b) /\ ~REq(a, b)

\* ------------------------------------------------- the global generator
\* One step of the process-wide generator every np.random call shares.
RngNext(r) == (5 * r + 3) % RngMod
\* The standard-normal deviate read off a generator state.
Deviate(r) == ((r \div 2) % 3) - 1

RECURSIVE RngAfter(_, _)
\* The generator state after k draws.
RngAfter(r, k) == IF k <= 0 THEN r ELSE RngAfter(RngNext(r), k - 1)

\* np.random.normal(loc, scale): loc + scale * z for the k-th deviate after r.
NormalDraw(loc, scale, r, k) == loc + scale * Deviate(RngAfter(r, k))

\* ------------------------------------------ calculate_risk_parameters
\* log_returns.mean()
Mean(s) == SumSeq(s) \div Len(s)
\* log_returns.std(): the sample standard deviation (ddof = 1).
Std(s) ==
    LET m == Mean(s)
        sq == [i \in 1 .. Len(s) |-> (s[i] - m) * (s[i] - m)]
    IN  ISqrt(SumSeq(sq) \div (Len(s) - 1))

NotEstimated ==
    [outcome |-> "not_called", mu |-> 0, sigma |-> 0, annual_trading_days |-> 0]

\* calculate_risk_parameters(processed_data, annual_trading_days)
calculate_risk_parameters(log_returns, T) ==
    IF log_returns = << >>
    THEN [outcome |-> "returned_none", mu |-> 0, sigma |-> 0,
          annual_trading_days |-> T]
    ELSE [outcome |-> "returned",
          mu |-> Mean(log_returns) * T,
          sigma |-> FMul(Std(log_returns), SqrtOfInt(T)),
          annual_trading_days |-> T]

\* ----------------------------------------- run_monte_carlo_simulation
\* The trading-day count the simulator de-annualizes with.
SimulatorT == ANNUAL_TRADING_DAYS
\* mu_daily = (mu_annual / T) - (0.5 * sigma_annual^2 / T)
MuDaily(mu_annual, sigma_annual, T) ==
    (mu_annual \div T) - ((FMul(sigma_annual, sigma_annual) \div 2) \div T)
\* sigma_daily = sigma_annual / np.sqrt(T)
SigmaDaily(sigma_annual, T) == FDiv(sigma_annual, SqrtOfInt(T))

\* final_log_returns[i]: the sum of row i of the (n x days) matrix of draws.
FinalLogReturn(loc, scale, r, i, days) ==
    SumSeq([j \in 1 .. days |-> NormalDraw(loc, scale, r, (i - 1) * days + j)])

\* initial_investment * np.exp(final_log_return)
TerminalValue(initial_investment, log_return) ==
    (initial_investment * Exp(log_return)) \div Unit

NoRun ==
    [outcome |-> "not_called", initial_investment |-> 0, forecast_days |-> 0,
     num_simulations |-> 0, mu_annual |-> 0, sigma_annual |-> 0,
     mu_daily |-> 0, sigma_daily |-> 0, values |-> << >>]

\* run_monte_carlo_simulation(mu_annual, sigma_annual, initial_investment,
\* forecast_days, num_simulations) with the generator in state r, for
\* non-negative counts.  No argument is checked.
run_monte_carlo_simulation(mu_annual, sigma_annual, I, days, n, r) ==
    LET mu_daily == MuDaily(mu_annual, sigma_annual, SimulatorT)
        sigma_daily == SigmaDaily(sigma_annual, SimulatorT)
    IN  [outcome |-> "returned",
         initial_investment |-> I, forecast_days |-> days,
         num_simulations |-> n, mu_annual |-> mu_annual,
         sigma_annual |-> sigma_annual, mu_daily |-> mu_daily,
         sigma_daily |-> sigma_daily,
         values |-> [i \in 1 .. n |->
             TerminalValue(I,
                 FinalLogReturn(mu_daily, sigma_daily, r, i, days))]]

\* The draws one invocation takes from the generator: size = (n, days).
DrawsTaken(days, n) == n * days

\* -------------------------------------------- calculate_value_at_risk
\* The rank taken at the confidence level itself, without the 1 - c.
VarQuantilePctUnflipped(confidence_level) == confidence_level

\* var_quantile * 100, with var_quantile = 1 - confidence_level.
VarQuantilePct(confidence_level) == PERCENT - confidence_level

\* np.percentile(values, q): linear interpolation between the order
\* statistics around the virtual index q / 100 * (n - 1).
Percentile(values, q) ==
    LET n == Len(values)
        s == SortSeq(values, LAMBDA a, b : a < b)
        virtual == q * (n - 1)
        lo == virtual \div PERCENT
        gamma == virtual % PERCENT
        hi == IF lo + 1 > n - 1 THEN n - 1 ELSE lo + 1
    IN  Rat(s[lo + 1] * PERCENT + (s[hi + 1] - s[lo + 1]) * gamma, PERCENT)

\* The tail taken on the wrong side: simulated_values >= var_value.
TailValuesAbove(values, var_value) ==
    SelectSeq(values, LAMBDA v : RLe(var_value, RInt(v)))

\* The tail taken strictly below: simulated_values < var_value.
TailValuesStrict(values, var_value) ==
    SelectSeq(values, LAMBDA v : RLt(RInt(v), var_value))

\* simulated_values[simulated_values <= var_value]
TailValues(values, var_value) ==
    SelectSeq(values, LAMBDA v : RLe(RInt(v), var_value))

\* .mean(): NaN for an empty slice.
MeanOf(values) ==
    IF values = << >> THEN NaN ELSE Rat(SumSeq(values), Len(values))

\* The investment the losses are measured against.
LossBase == INITIAL_INVESTMENT

\* The metrics of lines 72-80 once var_value is known.
MetricsFrom(values, confidence_level, var_value) ==
    LET cvar_value == MeanOf(TailValues(values, var_value))
    IN  [confidence_level |-> confidence_level, outcome |-> "returned",
         var_value |-> var_value,
         var_loss |-> RSub(RInt(LossBase), var_value),
         cvar_value |-> cvar_value,
         cvar_loss |-> RSub(RInt(LossBase), cvar_value)]

Raised(confidence_level, error) ==
    [confidence_level |-> confidence_level, outcome |-> error,
     var_value |-> NaN, var_loss |-> NaN, cvar_value |-> NaN,
     cvar_loss |-> NaN]

\* The outcomes of calculate_value_at_risk(simulated_values, confidence_level).
\* np.percentile rejects a rank outside [0, 100] with ValueError; on an empty
\* array it raises IndexError or returns nan, depending on the numpy release.
calculate_value_at_risk(values, confidence_level) ==
    LET q == VarQuantilePct(confidence_level)
    IN  IF q < 0 \/ q > PERCENT
        THEN {Raised(confidence_level, "ValueError")}
        ELSE IF values = << >>
        THEN {Raised(confidence_level, "IndexError"),
              MetricsFrom(values, confidence_level, NaN)}
        ELSE {MetricsFrom(values, confidence_level, Percentile(values, q))}

\* ------------------------------------------ agentic_decision_simulation
\* A text is the sequence of its pieces; a piece is a literal of the source,
\* a formatted number, or one of ".", " ", the phrase and the level names.
PHRASE == "Risk is considered "
DOT == "."
SPACE == " "
RiskLevels == {"MODERATE", "HIGH", "LOW"}

\* Tickers of an AgentState: the script's own, and two that carry the phrase
\* the strategy step searches for.
Tickers ==
    { <<"EUR/USD">>, <<PHRASE, "LOW", DOT>>, <<PHRASE, "N/A">> }

\* What the fallback run_simulation_and_get_results subtracts its draw from.
FallbackBase == 100000
\* np.random.randint(1000, 5000) and np.random.randint(5000, 8000): the ends
\* of each range and the values around the two risk thresholds.
VarLossDraws == {1000, 1001, 4000, 4001, 4999}
VarValueDraws == {1000, 4999}
CvarLossDraws == {5000, 7999}

\* f"{n:,.0f}" for a whole number 0 <= n < 10^6.
FormatThousands(n) ==
    LET low == n % 1000
        pad == IF low < 10 THEN "00" ELSE IF low < 100 THEN "0" ELSE ""
    IN  IF n < 1000 THEN ToString(n)
        ELSE ToString(n \div 1000) \o "," \o pad \o ToString(low)

\* determine_risk_level(var_loss, initial_investment): var_loss /
\* initial_investment > 0.04, > 0.01, else LOW.
determine_risk_level(var_loss, initial_investment) ==
    IF var_loss * 100 > 4 * initial_investment THEN "HIGH"
    ELSE IF var_loss * 100 > initial_investment THEN "MODERATE"
    ELSE "LOW"

\* The sentence risk_analysis_tool returns for the simulation's triple.
risk_analysis_tool(ticker, var_loss, var_value, cvar_loss) ==
    LET risk_level == determine_risk_level(var_loss, INITIAL_INVESTMENT)
    IN  <<"RESULT: 99% VaR Loss for ">> \o ticker \o
        <<" is $", FormatThousands(var_loss), " (Value: $",
          FormatThousands(var_value), ")", DOT, SPACE,
          "CVaR Loss is $", FormatThousands(cvar_loss), DOT, SPACE,
          PHRASE, risk_level, DOT>>

\* strategy_lookup_tool(risk_level): 'LOW' in, 'MODERATE' in, else.
strategy_lookup_tool(risk_level) ==
    IF risk_level = "LOW"
    THEN "RESULT: Strategy suggests: Diversify into safe government bonds and reduce equity exposure."
    ELSE IF risk_level = "MODERATE"
    THEN "RESULT: Strategy suggests: Maintain current diversified portfolio; rebalance if any sector exceeds 15%."
    ELSE "RESULT: Strategy suggests: Immediately reduce high-beta assets and raise cash reserves to 20%."

\* sep in text
Contains(text, sep) == \E i \in DOMAIN text : text[i] = sep

\* The index of the first piece equal to sep, or Len(text) + 1.
FirstIndex(text, sep) ==
    IF Contains(text, sep)
    THEN CHOOSE i \in DOMAIN text :
             text[i] = sep /\ \A j \in 1 .. i - 1 : text[j] # sep
    ELSE Len(text) + 1

\* text.split(sep)[0]
SplitFirst(text, sep) == SubSeq(text, 1, FirstIndex(text, sep) - 1)

\* text.split(sep)[1], for a text that holds sep.
SplitSecond(text, sep) ==
    LET rest == SubSeq(text, FirstIndex(text, sep) + 1, Len(text))
    IN  SplitFirst(rest, sep)

RECURSIVE LStrip(_)
LStrip(text) ==
    IF text # << >> /\ Head(text) = SPACE THEN LStrip(Tail(text)) ELSE text

RECURSIVE RStrip(_)
RStrip(text) ==
    IF text # << >> /\ text[Len(text)] = SPACE
    THEN RStrip(SubSeq(text, 1, Len(text) - 1)) ELSE text

\* text.strip()
Strip(text) == RStrip(LStrip(text))

\* The level execute_strategy_tool reads back out of risk_data (lines 89-90).
ParsedRiskLevel(risk_data) ==
    Strip(SplitFirst(SplitSecond(risk_data, PHRASE), DOT))

\* risk_level in ['MODERATE', 'HIGH', 'LOW']
IsRiskLevel(text) == Len(text) = 1 /\ text[1] \in RiskLevels

\* execute_strategy_tool takes its "Defaulting to MODERATE" branch (line 96).
DefaultsToModerate(state) ==
    /\ state.risk_data # << >>
    /\ Contains(state.risk_data, PHRASE)
    /\ ~IsRiskLevel(ParsedRiskLevel(state.risk_data))

\* execute_strategy_tool(state): the strategy_advice it leaves in the state.
execute_strategy_tool(state) ==
    IF state.risk_data # << >> /\ Contains(state.risk_data, PHRASE)
    THEN LET risk_level == ParsedRiskLevel(state.risk_data)
         IN  IF IsRiskLevel(risk_level)
             THEN [state EXCEPT !.strategy_advice =
                                    strategy_lookup_tool(risk_level[1])]
             ELSE [state EXCEPT !.strategy_advice =
                                    strategy_lookup_tool("MODERATE")]
    ELSE state

\* final_synthesis(state): the decision text.
final_synthesis(state) ==
    [state EXCEPT !.final_decision =
        <<"1. Risk Assessment: ">> \o state.risk_data \o
        <<"2. Strategic Guidance: ", state.strategy_advice,
          "FINAL DECISION: The agent recommends proceeding with the suggested strategy">>]

\* decision_node with the two tests in the other order.
decision_node_strategy_first(state) ==
    IF state.strategy_advice = "" THEN "call_strategy_tool"
    ELSE IF state.risk_data = << >> THEN "call_risk_tool"
    ELSE "final_synthesis"

\* decision_node(state): the router.
decision_node(state) ==
    IF state.risk_data = << >> THEN "call_risk_tool"
    ELSE IF state.strategy_advice = "" THEN "call_strategy_tool"
    ELSE "final_synthesis"

\* AgentState(ticker, initial_prompt): None is the empty text.
AgentState(ticker) ==
    [ticker |-> ticker, risk_data |-> << >>, strategy_advice |-> "",
     final_decision |-> << >>]

\* for step in range(5)
StepLimit == 5

\* run_agent_workflow on entry.  executed lists the steps taken so far,
\* var_loss keeps the loss the risk tool classified and defaulted whether the
\* strategy step took its "Defaulting to MODERATE" branch.
NotStarted ==
    [pc |-> "running", step |-> 0, executed |-> << >>, var_loss |-> 0,
     defaulted |-> FALSE]

\* One pass of the loop body that did not break: the for loop ends after
\* StepLimit passes.
Advance(w, taken) ==
    [w EXCEPT !.step = w.step + 1,
              !.executed = Append(w.executed, taken),
              !.pc = IF w.step + 1 >= StepLimit THEN "exhausted"
                     ELSE "running"]

\* -------------------------------------------------------------- state
VARIABLES
    rng,            \* state of the generator behind np.random
    processed_data, \* the Log_Returns column handed to the estimator
    est,            \* what calculate_risk_parameters returned
    cur,            \* the latest run_monte_carlo_simulation invocation
    prev,           \* the invocation before it, when it was repeated
    calls,          \* calculate_value_at_risk calls made on cur's result
    agent,          \* the AgentState run_agent_workflow works on
    workflow        \* run_agent_workflow's loop: position, step, steps taken

agentVars == <<agent, workflow>>
vars == <<rng, processed_data, est, cur, prev, calls, agent, workflow>>

Init ==
    /\ rng \in 0 .. RngMod - 1
    /\ processed_data \in ReturnSeries
    /\ est = NotEstimated
    /\ cur = NoRun
    /\ prev = NoRun
    /\ calls = {}
    /\ agent = AgentState(<<"EUR/USD">>)
    /\ workflow = NotStarted

\* mu_annual, sigma_annual = calculate_risk_parameters(processed_data, T)
Estimate(T) ==
    /\ est.outcome = "not_called"
    /\ est' = calculate_risk_parameters(processed_data, T)
    /\ UNCHANGED <<rng, processed_data, cur, prev, calls, agentVars>>

\* final_values = run_monte_carlo_simulation(mu_annual, sigma_annual, I, days, n);
\* the caller stops before it when the estimator returned None.
Simulate(I, days, n) ==
    /\ est.outcome = "returned"
    /\ cur' = run_monte_carlo_simulation(est.mu, est.sigma, I, days, n, rng)
    /\ rng' = RngAfter(rng, DrawsTaken(days, n))
    /\ prev' = NoRun
    /\ calls' = {}
    /\ UNCHANGED <<processed_data, est, agentVars>>

\* The same invocation made a second time, with the arguments of the first.
SimulateAgain ==
    /\ cur.outcome = "returned"
    /\ prev = NoRun
    /\ prev' = cur
    /\ cur' = run_monte_carlo_simulation(cur.mu_annual, cur.sigma_annual,
                  cur.initial_investment, cur.forecast_days,
                  cur.num_simulations, rng)
    /\ rng' = RngAfter(rng, DrawsTaken(cur.forecast_days, cur.num_simulations))
    /\ calls' = {}
    /\ UNCHANGED <<processed_data, est, agentVars>>

\* Any other draw from the shared generator (np.random.randint in the
\* agent's fallback run_simulation_and_get_results).
OtherDraw ==
    /\ rng' = RngNext(rng)
    /\ UNCHANGED <<processed_data, est, cur, prev, calls, agentVars>>

\* var_loss, var_value, cvar_loss = calculate_value_at_risk(final_values, c)
CalculateVaR(c) ==
    /\ cur.outcome = "returned"
    /\ \A m \in calls : m.confidence_level # c
    /\ \E m \in calculate_value_at_risk(cur.values, c) : calls' = calls \cup {m}
    /\ UNCHANGED <<rng, processed_data, est, cur, prev, agentVars>>

\* One pass of the script: estimate, simulate once, compute risk metrics.
Next ==
    \/ \E T \in AnnualizationFactors : Estimate(T)
    \/ /\ cur = NoRun
       /\ \E I \in Investments, days \in DayCounts, n \in PathCounts :
              Simulate(I, days, n)
    \/ \E c \in ConfidenceLevels : CalculateVaR(c)

Spec == Init /\ [][Next]_vars

\* Repeated invocations of the simulator sharing the process-wide generator.
NextRepeat ==
    \/ \E T \in AnnualizationFactors : Estimate(T)
    \/ \E I \in Investments, days \in DayCounts, n \in PathCounts :
           Simulate(I, days, n)
    \/ SimulateAgain
    \/ OtherDraw

SpecRepeat == Init /\ [][NextRepeat]_vars

\* ------------------------------------------------- run_agent_workflow
\* next_step == "call_risk_tool": execute_risk_tool, whose simulation is the
\* fallback run_simulation_and_get_results (the import finds no such name).
ExecuteRiskTool(var_loss, var_value_draw, cvar_loss) ==
    /\ workflow.pc = "running"
    /\ decision_node(agent) = "call_risk_tool"
    /\ agent' = [agent EXCEPT !.risk_data =
                     risk_analysis_tool(agent.ticker, var_loss,
                         FallbackBase - var_value_draw, cvar_loss)]
    /\ workflow' = [Advance(workflow, "call_risk_tool")
                       EXCEPT !.var_loss = var_loss]
    /\ rng' = RngAfter(rng, 3)
    /\ UNCHANGED <<processed_data, est, cur, prev, calls>>

\* next_step == "call_strategy_tool": execute_strategy_tool.
ExecuteStrategyTool ==
    /\ workflow.pc = "running"
    /\ decision_node(agent) = "call_strategy_tool"
    /\ agent' = execute_strategy_tool(agent)
    /\ workflow' = [Advance(workflow, "call_strategy_tool")
                       EXCEPT !.defaulted = DefaultsToModerate(agent)]
    /\ UNCHANGED <<rng, processed_data, est, cur, prev, calls>>

\* next_step == "final_synthesis": final_synthesis, then break.
FinalSynthesis ==
    /\ workflow.pc = "running"
    /\ decision_node(agent) = "final_synthesis"
    /\ agent' = final_synthesis(agent)
    /\ workflow' = [workflow EXCEPT !.step = workflow.step + 1,
                       !.executed = Append(workflow.executed, "final_synthesis"),
                       !.pc = "done"]
    /\ UNCHANGED <<rng, processed_data, est, cur, prev, calls>>

InitAgent ==
    /\ rng \in 0 .. RngMod - 1
    /\ processed_data = << >>
    /\ est = NotEstimated
    /\ cur = NoRun
    /\ prev = NoRun
    /\ calls = {}
    /\ agent \in {AgentState(t) : t \in Tickers}
    /\ workflow = NotStarted

\* run_agent_workflow(initial_state): one pass of the loop per step.
NextAgent ==
    \/ \E l \in VarLossDraws, v \in VarValueDraws, c \in CvarLossDraws :
           ExecuteRiskTool(l, v, c)
    \/ ExecuteStrategyTool
    \/ FinalSynthesis

SpecAgent == InitAgent /\ [][NextAgent]_vars

\* ------------------------------------------------------------- claims
\* confidence_level strictly inside (0, 1).
InOpenInterval(c) == 0 < c /\ c < PERCENT
\* A call that returned metrics for a confidence level inside (0, 1).
Computed(m) == m.outcome = "returned" /\ InOpenInterval(m.confidence_level)
\* The run was made with arguments inside the simulator's stated domain.
ValidRun(run) ==
    /\ run.outcome = "returned"
    /\ run.initial_investment > 0
    /\ run.forecast_days >= 1
    /\ run.num_simulations >= 1
\* The result holds more than one distinct value.
SeveralValues(values) == Cardinality({values[i] : i \in DOMAIN values}) > 1

\* C1: for a result with more than one distinct value and a confidence level
\* in (0,1), the tail at or below var_value is not empty, its mean is at
\* most var_value, and cvar_loss >= var_loss.
C1_TailOrdering ==
    \A m \in calls :
        (Computed(m) /\ SeveralValues(cur.values)) =>
            /\ ~IsNaN(m.cvar_value)
            /\ RLe(m.cvar_value, m.var_value)
            /\ RLe(m.var_loss, m.cvar_loss)

\* C1 happens: a result of distinct values whose tail mean lies strictly
\* below the percentile.
C1_Witness ==
    \E m \in calls :
        /\ Computed(m)
        /\ cur.initial_investment > 0
        /\ SeveralValues(cur.values)
        /\ RLt(m.var_loss, m.cvar_loss)

\* C2: the losses are measured against the run's own initial_investment:
\* var_loss = I - var_value and cvar_loss = I - cvar_value for every I > 0.
C2_LossAgainstRunInvestment ==
    \A m \in calls :
        (Computed(m) /\ ValidRun(cur)) =>
            /\ REq(m.var_loss, RSub(RInt(cur.initial_investment), m.var_value))
            /\ REq(m.cvar_loss, RSub(RInt(cur.initial_investment), m.cvar_value))

\* C3: on one non-empty result, var_loss does not decrease as the confidence
\* level rises within (0,1).
C3_Monotonicity ==
    \A m1, m2 \in calls :
        (/\ Computed(m1) /\ Computed(m2)
         /\ cur.values # << >>
         /\ m1.confidence_level <= m2.confidence_level) =>
            RLe(m1.var_loss, m2.var_loss)

\* C3 happens: two confidence levels on one result, the stricter one with
\* the strictly greater loss.
C3_Witness ==
    \E m1, m2 \in calls :
        /\ Computed(m1) /\ Computed(m2)
        /\ cur.initial_investment > 0
        /\ m1.confidence_level < m2.confidence_level
        /\ RLt(m1.var_loss, m2.var_loss)

\* C4: the simulator de-annualizes with the annualization factor the
\* parameters were estimated with.
C4_DeAnnualizationConsistent ==
    ValidRun(cur) =>
        /\ cur.sigma_daily = SigmaDaily(est.sigma, est.annual_trading_days)
        /\ cur.mu_daily = MuDaily(est.mu, est.sigma, est.annual_trading_days)

\* C5: an invocation repeated with identical arguments returns the identical
\* array of terminal values, whatever was drawn from the generator before.
C5_Reproducible ==
    (/\ prev.outcome = "returned"
     /\ cur.outcome = "returned"
     /\ cur.mu_annual = prev.mu_annual
     /\ cur.sigma_annual = prev.sigma_annual
     /\ cur.initial_investment = prev.initial_investment
     /\ cur.forecast_days = prev.forecast_days
     /\ cur.num_simulations = prev.num_simulations) =>
        cur.values = prev.values

\* C6: with sigma = 0 every terminal value is the one value fixed by the
\* investment, the step drift and the horizon; with mu_annual = 0 as well it
\* is the investment itself and var_loss = cvar_loss = 0.
C6_ZeroVolatility ==
    (ValidRun(cur) /\ cur.sigma_annual = 0) =>
        /\ \A i \in DOMAIN cur.values :
               cur.values[i] = TerminalValue(cur.initial_investment,
                                   cur.mu_daily * cur.forecast_days)
        /\ cur.mu_annual = 0 =>
               /\ \A i \in DOMAIN cur.values :
                      cur.values[i] = cur.initial_investment
               /\ \A m \in calls :
                      Computed(m) =>
                          /\ REq(m.var_loss, RInt(0))
                          /\ REq(m.cvar_loss, RInt(0))

\* C7: on a result of one path, var_value and cvar_value are that path's
\* value for every confidence level in (0,1), so cvar_loss = var_loss.
C7_Singleton ==
    (cur.outcome = "returned" /\ cur.num_simulations = 1) =>
        \A m \in calls :
            InOpenInterval(m.confidence_level) =>
                /\ m.outcome = "returned"
                /\ REq(m.var_value, RInt(cur.values[1]))
                /\ REq(m.cvar_value, RInt(cur.values[1]))
                /\ REq(m.cvar_loss, m.var_loss)

\* C7 happens: metrics computed on a one-path result drawn with volatility.
C7_Witness ==
    /\ cur.outcome = "returned"
    /\ cur.num_simulations = 1
    /\ cur.initial_investment > 0
    /\ cur.forecast_days >= 1
    /\ cur.sigma_daily > 0
    /\ \E m \in calls : Computed(m)

\* C8: estimation on an empty log-return series fails with
\* InsufficientDataError and returns nothing in its place.
C8_EmptySeriesRaises ==
    (est.outcome # "not_called" /\ processed_data = << >>) =>
        est.outcome = "InsufficientDataError"

\* C9: a confidence level outside (0,1), 0.0 and 1.0 included, fails with
\* InvalidParameterError and an empty result with InsufficientDataError.
C9_MetricsValidateInputs ==
    \A m \in calls :
        /\ ~InOpenInterval(m.confidence_level) =>
               m.outcome = "InvalidParameterError"
        /\ (InOpenInterval(m.confidence_level) /\ cur.values = << >>) =>
               m.outcome = "InsufficientDataError"

\* C10: forecast_horizon < 1, path_count < 1 or initial_investment <= 0
\* fails with InvalidParameterError and returns no result.
C10_SimulatorValidatesInputs ==
    (/\ cur.outcome # "not_called"
     /\ \/ cur.forecast_days < 1
        \/ cur.num_simulations < 1
        \/ cur.initial_investment <= 0) =>
        cur.outcome = "InvalidParameterError"

\* The three steps of a complete workflow, in order.
WorkflowOrder == <<"call_risk_tool", "call_strategy_tool", "final_synthesis">>

\* C11: from a fresh AgentState the workflow takes exactly the steps risk
\* tool, strategy tool, final synthesis, in that order, and ends with
\* final_decision set; the strategy tool runs only once risk_data is set, the
\* synthesis only once strategy_advice is set, and the 5-step limit is never
\* exhausted.
C11_WorkflowOrder ==
    /\ workflow.step = Len(workflow.executed)
    /\ workflow.step <= Len(WorkflowOrder)
    /\ workflow.executed = SubSeq(WorkflowOrder, 1, workflow.step)
    /\ workflow.step >= 1 => agent.risk_data # << >>
    /\ workflow.step >= 2 => agent.strategy_advice # ""
    /\ workflow.pc # "exhausted"
    /\ workflow.pc = "done" <=> workflow.step = Len(WorkflowOrder)
    /\ workflow.pc = "done" <=> agent.final_decision # << >>
    /\ workflow.pc = "running" => ENABLED NextAgent

\* C11 happens: a workflow completed in its three steps on a HIGH loss.
C11_Witness ==
    /\ workflow.pc = "done"
    /\ workflow.executed = WorkflowOrder
    /\ agent.final_decision # << >>
    /\ workflow.var_loss = 4999

\* The level the claim assigns to a loss relative to 100000: HIGH over 4%,
\* MODERATE over 1% and at most 4%, LOW at most 1%.
ClaimedLevel(var_loss) ==
    IF var_loss > 4000 THEN "HIGH"
    ELSE IF var_loss > 1000 THEN "MODERATE"
    ELSE "LOW"

\* C12: in every completed workflow strategy_advice is the advice for the
\* level of the run's var_loss, the level parsed out of risk_data is the level
\* written into it, and the default-to-MODERATE branch is not taken.
C12_StrategyMatchesRiskLevel ==
    workflow.pc = "done" =>
        /\ agent.strategy_advice =
               strategy_lookup_tool(ClaimedLevel(workflow.var_loss))
        /\ ParsedRiskLevel(agent.risk_data) =
               <<ClaimedLevel(workflow.var_loss)>>
        /\ ~workflow.defaulted

====
